---- MODULE Spec2Model ----
(***************************************************************************)
(* A model of rent_to_own (src/src/lib.rs): RentToOwn<'a, T>, a view over  *)
(* an Option<T> slot owned by RentToOwn::with, with Deref, DerefMut and a  *)
(* one-shot take.                                                          *)
(*                                                                         *)
(* One behaviour is one invocation RentToOwn::with(v, f).  The closure f   *)
(* is any finite sequence of wrapper operations followed by a return (or a *)
(* panic of its own).  Option<T> is a sequence of length 0 (None) or 1     *)
(* (Some(x)).                                                              *)
(***************************************************************************)
EXTENDS Integers, Sequences, FiniteSets

\* ---------------------------------------------------------------- bounds
\* T is modelled by 1..MaxVal, U by 0..MaxRes; the closure performs at most
\* MaxOps wrapper operations.
MaxVal == 2
MaxRes == 1
MaxOps == 3

Values == 1..MaxVal
Results == 0..MaxRes

VARIABLES
    pc,        \* position in with: "start", "callback", "returned", "done",
               \* "unwinding", "panicked"
    arg,       \* with's parameter `inner: T`, until it is moved into the slot
    inner,     \* the slot, `let mut inner = Some(inner)`; me.inner points at it
               \* (once with has returned or unwound: its content at that point)
    borrowed,  \* `me` is mutably borrowed for the rest of its lifetime (by take)
    borrowck,  \* the closure obeys the lifetimes of take's signature
    log,       \* the wrapper operations the closure has attempted, in order
    taken,     \* the values take has returned to the closure, in order
    ret,       \* the closure's return value, Option<U>
    outcome,   \* with's return value: <<>> or <<Option<T>, U>>
    failure,   \* "none", "unwrap" (Option::unwrap on None), "callback"
    calls,     \* how many times with has invoked f
    v0         \* the value with was called with

vars == <<pc, arg, inner, borrowed, borrowck, log, taken, ret, outcome,
          failure, calls, v0>>

\* ------------------------------------------------------------- Option<T>
None == <<>>
Some(x) == <<x>>
IsSome(opt) == Len(opt) = 1
IsNone(opt) == Len(opt) = 0

\* Option::unwrap on Some(x); on None it panics, which the callers model.
Unwrap(opt) == opt[1]

\* One attempted wrapper operation and what it gave the closure: ok is FALSE
\* when the operation panicked; val is the value read, written or taken (0
\* when there is none).
Entry(op, ok, val) == [op |-> op, ok |-> ok, val |-> val]

\* ----------------------------------------------------------------- state
InitWith(disciplined) ==
    /\ pc = "start"
    /\ v0 \in Values
    /\ arg = Some(v0)
    /\ inner = None
    /\ borrowed = FALSE
    /\ borrowck \in disciplined
    /\ log = <<>>
    /\ taken = <<>>
    /\ ret = None
    /\ outcome = <<>>
    /\ failure = "none"
    /\ calls = 0

\* Closures accepted by the borrow checker.
Init == InitWith({TRUE})

\* Closures that also reach the wrapper outside the lifetime discipline (the
\* bodies of deref, deref_mut and take as they run on an empty slot).
InitAny == InitWith(BOOLEAN)

\* The closure may still use the wrapper: after take(&'a mut self) the borrow
\* lasts for all of 'a, so a disciplined closure has no further access.
Usable == borrowck => ~borrowed

InCallback == pc = "callback" /\ Usable /\ Len(log) < MaxOps

\* The unwrap of an empty slot: the thread panics and starts unwinding.
UnwrapPanics(op) ==
    /\ log' = Append(log, Entry(op, FALSE, 0))
    /\ pc' = "unwinding"
    /\ failure' = "unwrap"

\* ------------------------------------------------------------- operations
\* with, lines 176-179: the slot is initialised with the argument, the
\* wrapper is built over it and f is invoked.
WithEnter ==
    /\ pc = "start"
    /\ inner' = Some(Unwrap(arg))
    /\ arg' = None
    /\ calls' = calls + 1
    /\ pc' = "callback"
    /\ UNCHANGED <<borrowed, borrowck, log, taken, ret, outcome, failure, v0>>

\* A faulty Deref: the read is served from the value with was called with,
\* not from the slot.
DerefStale ==
    /\ InCallback
    /\ IF IsSome(inner)
       THEN /\ log' = Append(log, Entry("deref", TRUE, v0))
            /\ UNCHANGED <<pc, failure>>
       ELSE UnwrapPanics("deref")
    /\ UNCHANGED <<arg, inner, borrowed, borrowck, taken, ret, outcome, calls, v0>>

\* A faulty Deref: unwrap_or_default() in place of unwrap(), so a read of an
\* empty slot yields a value.
DerefOrDefault ==
    /\ InCallback
    /\ log' = Append(log, Entry("deref", TRUE, IF IsSome(inner) THEN Unwrap(inner) ELSE 0))
    /\ UNCHANGED <<pc, failure, arg, inner, borrowed, borrowck, taken, ret,
                   outcome, calls, v0>>

\* A faulty Deref: the read moves the value out of the slot (take() in place
\* of as_ref()).
DerefConsumes ==
    /\ InCallback
    /\ inner' = None
    /\ IF IsSome(inner)
       THEN /\ log' = Append(log, Entry("deref", TRUE, Unwrap(inner)))
            /\ UNCHANGED <<pc, failure>>
       ELSE UnwrapPanics("deref")
    /\ UNCHANGED <<arg, borrowed, borrowck, taken, ret, outcome, calls, v0>>

\* Deref::deref: self.inner.as_ref().unwrap()
Deref ==
    /\ InCallback
    /\ IF IsSome(inner)
       THEN /\ log' = Append(log, Entry("deref", TRUE, Unwrap(inner)))
            /\ UNCHANGED <<pc, failure>>
       ELSE UnwrapPanics("deref")
    /\ UNCHANGED <<arg, inner, borrowed, borrowck, taken, ret, outcome, calls, v0>>

\* A faulty DerefMut: the &mut T points at a copy, so the store is lost.
DerefMutLost(w) ==
    /\ InCallback
    /\ IF IsSome(inner)
       THEN /\ log' = Append(log, Entry("deref_mut", TRUE, w))
            /\ UNCHANGED <<pc, failure>>
       ELSE UnwrapPanics("deref_mut")
    /\ UNCHANGED <<arg, inner, borrowed, borrowck, taken, ret, outcome, calls, v0>>

\* A faulty DerefMut: get_or_insert_with in place of as_mut().unwrap(), so a
\* store into an empty slot fills it again.
DerefMutInserts(w) ==
    /\ InCallback
    /\ inner' = Some(w)
    /\ log' = Append(log, Entry("deref_mut", TRUE, w))
    /\ UNCHANGED <<pc, failure, arg, borrowed, borrowck, taken, ret, outcome,
                   calls, v0>>

\* DerefMut::deref_mut: self.inner.as_mut().unwrap(), and the closure's store
\* of w through the &mut T it returns (`**x = 6`).
DerefMut(w) ==
    /\ InCallback
    /\ IF IsSome(inner)
       THEN /\ inner' = Some(w)
            /\ log' = Append(log, Entry("deref_mut", TRUE, w))
            /\ UNCHANGED <<pc, failure>>
       ELSE /\ UnwrapPanics("deref_mut")
            /\ UNCHANGED inner
    /\ UNCHANGED <<arg, borrowed, borrowck, taken, ret, outcome, calls, v0>>

\* A faulty Take: as_ref().cloned() in place of Option::take, so the value
\* stays in the slot.
TakeLeaves ==
    /\ InCallback
    /\ borrowed' = TRUE
    /\ IF IsSome(inner)
       THEN /\ taken' = Append(taken, Unwrap(inner))
            /\ log' = Append(log, Entry("take", TRUE, Unwrap(inner)))
            /\ UNCHANGED <<pc, failure>>
       ELSE /\ UnwrapPanics("take")
            /\ UNCHANGED taken
    /\ UNCHANGED <<arg, inner, borrowck, ret, outcome, calls, v0>>

\* A faulty Take: take(&mut self) in place of take(&'a mut self), so the
\* borrow ends with the call.
TakeShortBorrow ==
    /\ InCallback
    /\ inner' = None
    /\ UNCHANGED borrowed
    /\ IF IsSome(inner)
       THEN /\ taken' = Append(taken, Unwrap(inner))
            /\ log' = Append(log, Entry("take", TRUE, Unwrap(inner)))
            /\ UNCHANGED <<pc, failure>>
       ELSE /\ UnwrapPanics("take")
            /\ UNCHANGED taken
    /\ UNCHANGED <<arg, borrowck, ret, outcome, calls, v0>>

\* RentToOwn::take: self.inner.take().unwrap().  Option::take leaves None in
\* the slot and returns what was there; &'a mut self borrows the wrapper for
\* the rest of its existence.
Take ==
    /\ InCallback
    /\ inner' = None
    /\ borrowed' = TRUE
    /\ IF IsSome(inner)
       THEN /\ taken' = Append(taken, Unwrap(inner))
            /\ log' = Append(log, Entry("take", TRUE, Unwrap(inner)))
            /\ UNCHANGED <<pc, failure>>
       ELSE /\ UnwrapPanics("take")
            /\ UNCHANGED taken
    /\ UNCHANGED <<arg, borrowck, ret, outcome, calls, v0>>

\* The closure returns u (any value of U: a constant, something it read, the
\* value it took).
CallbackReturn(u) ==
    /\ pc = "callback"
    /\ ret' = Some(u)
    /\ pc' = "returned"
    /\ UNCHANGED <<arg, inner, borrowed, borrowck, log, taken, outcome, failure,
                   calls, v0>>

\* The closure fails on its own account (a failed assert_eq! in it, say).
CallbackPanic ==
    /\ pc = "callback"
    /\ failure' = "callback"
    /\ pc' = "unwinding"
    /\ UNCHANGED <<arg, inner, borrowed, borrowck, log, taken, ret, outcome,
                   calls, v0>>

\* A faulty WithReturn: with hands back the value it was called with, whatever
\* happened to the slot.
WithReturnOriginal ==
    /\ pc = "returned"
    /\ outcome' = <<Some(v0), Unwrap(ret)>>
    /\ pc' = "done"
    /\ UNCHANGED <<arg, inner, borrowed, borrowck, log, taken, ret, failure,
                   calls, v0>>

\* A faulty WithReturn: the first component as the module documentation's
\* example words it, Some when the closure took ownership and None when not.
WithReturnSwapped ==
    /\ pc = "returned"
    /\ outcome' = <<IF IsNone(inner) THEN Some(taken[1]) ELSE None, Unwrap(ret)>>
    /\ pc' = "done"
    /\ UNCHANGED <<arg, inner, borrowed, borrowck, log, taken, ret, failure,
                   calls, v0>>

\* with, lines 180-181: the wrapper goes out of scope and with returns
\* (inner, u).
WithReturn ==
    /\ pc = "returned"
    /\ outcome' = <<inner, Unwrap(ret)>>
    /\ pc' = "done"
    /\ UNCHANGED <<arg, inner, borrowed, borrowck, log, taken, ret, failure,
                   calls, v0>>

\* A faulty WithUnwind: with catches the panic (catch_unwind around f) and
\* returns a pair all the same.
WithUnwindCaught ==
    /\ pc = "unwinding"
    /\ outcome' = <<inner, 0>>
    /\ pc' = "done"
    /\ UNCHANGED <<arg, inner, borrowed, borrowck, log, taken, ret, failure,
                   calls, v0>>

\* with has no handler: a panic in f unwinds through with's frame to with's
\* caller, and with returns nothing.
WithUnwind ==
    /\ pc = "unwinding"
    /\ pc' = "panicked"
    /\ UNCHANGED <<arg, inner, borrowed, borrowck, log, taken, ret, outcome,
                   failure, calls, v0>>

Next ==
    \/ WithEnter
    \/ Deref
    \/ \E w \in Values : DerefMut(w)
    \/ Take
    \/ \E u \in Results : CallbackReturn(u)
    \/ CallbackPanic
    \/ WithReturn
    \/ WithUnwind

Spec == Init /\ [][Next]_vars

SpecAny == InitAny /\ [][Next]_vars

\* ------------------------------------------------------ reading the log
\* The value of the slot after the operations of l, started at v: the value of
\* the last store made through the wrapper, v when there was none.
RECURSIVE SlotAfter(_, _)
SlotAfter(v, l) ==
    IF l = <<>> THEN v
    ELSE LET last == l[Len(l)]
         IN  IF last.op = "deref_mut" /\ last.ok THEN last.val
             ELSE SlotAfter(v, SubSeq(l, 1, Len(l) - 1))

Prefix(i) == SubSeq(log, 1, i - 1)
Attempted(op) == {i \in 1..Len(log) : log[i].op = op}
Succeeded(op) == {i \in Attempted(op) : log[i].ok}

\* A take has succeeded: the closure took ownership.
TookOwnership == Succeeded("take") # {}

\* The step appends one entry for operation op to the log.
Step(op) == Len(log') = Len(log) + 1 /\ log'[Len(log')].op = op

\* ------------------------------------------------------------------ C1
\* C1: when the closure never calls take, with returns (Some(v'), u): v' is
\* the value of the last store made through the wrapper (the initial value if
\* there was none) and u is the value the closure returned.
C1_UntakenGivenBack ==
    (pc = "done" /\ Attempted("take") = {})
        => outcome = <<Some(SlotAfter(v0, log)), Unwrap(ret)>>

\* with has returned after a closure that read and stored a value other than
\* the initial one, and never took.
C1_Witness ==
    /\ pc = "done"
    /\ Attempted("take") = {}
    /\ Attempted("deref") # {}
    /\ \E i \in Succeeded("deref_mut") : log[i].val # v0

\* ------------------------------------------------------------------ C2
\* C2: when the closure calls take once, as its last access, take returns the
\* value the slot held at that moment and with returns (None, u), u the
\* closure's return value.
C2_TakenOnce ==
    (Attempted("take") = {Len(log)} /\ Len(log) > 0)
        => /\ log[Len(log)].ok
           /\ log[Len(log)].val = SlotAfter(v0, Prefix(Len(log)))
           /\ taken = <<log[Len(log)].val>>
           /\ pc = "done" => outcome = <<None, Unwrap(ret)>>

\* with has returned after a closure that stored a new value and then took it.
C2_Witness ==
    /\ pc = "done"
    /\ Attempted("take") = {Len(log)}
    /\ Len(log) > 1
    /\ taken # <<v0>>

\* ------------------------------------------------------------------ C3
\* C3: in every state the value is in exactly one place (with's argument, the
\* slot, or the closure that took it), and it is the current value; when with
\* returns, either the remainder is Some(value) and no take returned a value,
\* or the remainder is None and exactly one take returned the value.
C3_OneHolder ==
    /\ Len(arg) + Len(inner) + Len(taken) = 1
    /\ arg \o inner \o taken = <<SlotAfter(v0, log)>>
    /\ pc = "done" =>
          \/ outcome[1] = Some(SlotAfter(v0, log)) /\ taken = <<>>
          \/ outcome[1] = None /\ taken = <<SlotAfter(v0, log)>>

\* A second take has been attempted on a wrapper whose value was taken.
C3_Witness ==
    /\ Cardinality(Attempted("take")) = 2
    /\ Len(taken) = 1

\* ------------------------------------------------------------------ C4
\* C4: every read, store or take attempted after a successful take panics on
\* the unwrap of the empty slot and yields no value; a second take never
\* returns the value again.
C4_UseAfterTakePanics ==
    /\ \A i \in Succeeded("take") : \A j \in (i + 1)..Len(log) :
          /\ ~log[j].ok
          /\ log[j].val = 0
          /\ failure = "unwrap"
          /\ pc \in {"unwinding", "panicked"}
    /\ Len(taken) <= 1

\* A second take has been attempted after a successful one and has panicked
\* (with(5, |x| { x.take(); x.take() })).
C4_Witness ==
    /\ log = <<Entry("take", TRUE, v0), Entry("take", FALSE, 0)>>
    /\ taken = <<v0>>
    /\ failure = "unwrap"
    /\ pc = "panicked"

\* ------------------------------------------------------------------ C5
\* C5: for closures the lifetimes admit, no unwrap panics: every wrapper
\* operation succeeds, with fails only when the closure itself fails, and
\* otherwise goes on to return a pair.
C5_NoUnwrapPanic ==
    /\ failure # "unwrap"
    /\ \A i \in 1..Len(log) : log[i].ok
    /\ pc \in {"unwinding", "panicked"} => failure = "callback"
    /\ pc = "done" => Len(outcome) = 2
    /\ pc \notin {"done", "panicked"} => ENABLED Next

\* with has returned a pair after a closure that used the wrapper and then
\* took the value.
C5_Witness ==
    /\ pc = "done"
    /\ Len(outcome) = 2
    /\ TookOwnership
    /\ Len(log) = MaxOps

\* ------------------------------------------------------------------ C6
\* C6: once take has succeeded the slot is empty and stays empty in every later
\* step, the remainder with extracts included.
C6_StaysEmpty ==
    [][TookOwnership =>
          /\ IsNone(inner)
          /\ IsNone(inner')
          /\ pc' = "done" => outcome'[1] = None]_vars

\* A store has been attempted on the wrapper after a take.
C6_Witness ==
    \E i \in Succeeded("take") : \E j \in Attempted("deref_mut") : i < j

\* ------------------------------------------------------------------ C7
\* C7: a read returns the current value of the slot: the initial value, or the
\* value of the most recent store made earlier in the closure.
C7_ReadYourWrites ==
    \A i \in Attempted("deref") :
        log[i].ok /\ log[i].val = SlotAfter(v0, Prefix(i))

\* A read that follows two stores, the later one of a value other than the
\* initial one.
C7_Witness ==
    \E i \in Attempted("deref") :
        /\ i = 3
        /\ Succeeded("deref_mut") = {1, 2}
        /\ log[i].val # v0
        /\ log[i].val # log[1].val

C9_FailurePropagates ==
    /\ calls = (IF pc = "start" THEN 0 ELSE 1)
    /\ failure # "none" => pc \in {"unwinding", "panicked"} /\ outcome = <<>>
    /\ pc \in {"unwinding", "panicked"} => failure # "none"
    /\ pc = "done" => failure = "none" /\ Len(outcome) = 2

\* The closure's panic on an empty slot has unwound through with.
C9_Witness ==
    /\ pc = "panicked"
    /\ failure = "unwrap"
    /\ calls = 1

\* ----------------------------------------------------------------- C10
\* C10: a read leaves the slot as it is; a store changes the value but not
\* whether one is present; only a successful take empties an occupied slot, so
\* the remainder is None exactly when a take succeeded.
C10_FrameStep ==
    /\ Step("deref") => inner' = inner
    /\ Step("deref_mut") => (IsSome(inner') <=> IsSome(inner))
    /\ (IsSome(inner) /\ IsNone(inner')) =>
          /\ Step("take")
          /\ log'[Len(log')] = Entry("take", TRUE, Unwrap(inner))

C10_Frame ==
    /\ [][C10_FrameStep]_vars
    /\ [](pc = "done" => (IsNone(outcome[1]) <=> TookOwnership))

\* A read, a store and a take, in this order, and then with's return.
C10_Witness ==
    /\ pc = "done"
    /\ Len(log) = 3
    /\ log[1].op = "deref"
    /\ log[2].op = "deref_mut"
    /\ log[3].op = "take"

====
